---- MODULE Spec2Model ----
(***************************************************************************)
(* Model of the two ROI report scripts of google-soar:                     *)
(*   roi-report-poc.py      one fixed reporting window                     *)
(*   roi-report-seaborn.py  one window per loop pass over the last 3 days  *)
(* Both scripts check the environment, search the case ids of a window,    *)
(* fetch every case's details and add minutes per attached playbook to     *)
(* the global roi_counts.  The remote service and the clock are inputs:    *)
(* every response and every clock reading is chosen nondeterministically.  *)
(***************************************************************************)
EXTENDS Integers, Sequences, FiniteSets, TLC

VARIABLES
    script,               \* which of the two scripts runs: "poc" or "seaborn"
    env,                  \* names of the environment variables that are set
    pc,                   \* position of the script
    exit_code,            \* process exit status, -1 while running
    fault,                \* uncaught exception that ended the run, "none" otherwise
    roi_counts,           \* global roi_counts: playbook name -> minutes
    case_id_list,         \* list returned by get_case_ids()
    idx,                  \* position of the for loop in case_id_list
    search_status,        \* status code of the last search response, 0 before
    response,             \* status code of the last detail response, 0 before
    startTime, endTime,   \* window sent with the search request (clock ticks)
    i,                    \* seaborn: loop variable of range(3)
    now,                  \* seaborn: the UTC clock (ticks)
    all_roi_counts,       \* seaborn: day key -> roi_counts of that pass
    total_minutes_saved,  \* seaborn: playbook name -> minutes over all passes
    search_log,           \* history: windows of the search requests issued
    detail_log,           \* history: detail requests issued, [id, status]
    hist                  \* history: playbook names added to the current roi_counts

vars == << script, env, pc, exit_code, fault, roi_counts, case_id_list, idx,
           search_status, response, startTime, endTime, i, now, all_roi_counts,
           total_minutes_saved, search_log, detail_log, hist >>

----------------------------------------------------------------------------
(* Bounds of the model *)

\* most case ids in one search response of the single-window script
MaxCases == 3
\* most alert cards in one case of the single-window script
MaxCards == 2
\* most case ids in one search response of the multi-day script
MaxDayCases == 1
\* most alert cards in one case of the multi-day script
MaxDayCards == 1
\* most alert cards of all the detail responses of one window together
MaxAdded == 4
\* clock resolution: ticks per calendar day
TicksPerDay == 2
\* most ticks the clock advances between two readings
MaxAdvance == 2
\* the clock reading at process start is below FirstDay days + 1 day
FirstDay == 5

----------------------------------------------------------------------------
(* Program constants *)

\* playbook names of the model: one configured, one not configured
Falcon == "Enrich Falcon Alerts"
CopyOfFalcon == "Copy of Enrich Falcon Alerts"
Unconfigured == "__unconfigured__"

\* JSON null in playbookAttached (Python None), and the empty string
Null == "<null>"
Empty == ""
\* an alert card without a playbookAttached member
Absent == "<absent>"

playbook_time_def_map ==
    ("Enrich Defender ATP Alerts" :> 30) @@ (Falcon :> 5) @@
    ("Enrich FireEye Alerts" :> 25) @@ ("Enrich Rapid7  Alerts" :> 60) @@
    (Unconfigured :> 10)

required_env_vars == {"APP_KEY", "BASE_URL"}

\* range(3)
NumDays == 3

\* startTime/endTime of the single-window script, in days since 2024-09-01
PocStartDay == 0
PocEndDay == 7

EmptyMap == [p \in {} |-> 0]

----------------------------------------------------------------------------
(* Inputs *)

RECURSIVE SeqsUpTo(_, _)
SeqsUpTo(S, n) ==
    IF n = 0 THEN { << >> }
    ELSE LET shorter == SeqsUpTo(S, n - 1)
         IN  shorter \cup { Append(s, x) : s \in { t \in shorter : Len(t) = n - 1 }, x \in S }

CardValues == IF script = "poc" THEN { Falcon, CopyOfFalcon, Null, Empty, Absent }
              ELSE { Falcon, CopyOfFalcon }

CaseBound == IF script = "poc" THEN MaxCases ELSE MaxDayCases
CardBound == IF script = "poc" THEN MaxCards ELSE MaxDayCards

\* a search response: the status, whether the body has "results", and the ids
SearchResponses ==
    { [status |-> st, has_results |-> h, results |-> [k \in 1..n |-> k]] :
        st \in {200, 500}, h \in BOOLEAN, n \in 0..CaseBound }

\* a detail response: the status and the playbookAttached of each alert card
DetailResponses ==
    { [status |-> st, alertCards |-> cs] :
        st \in {200, 404}, cs \in SeqsUpTo(CardValues, CardBound) }

----------------------------------------------------------------------------
(* Pure parts of the scripts *)

\* a check that forgets BASE_URL, which line 68 (66) gives a default
missing_vars_app_key_only(e) == { v \in {"APP_KEY"} : v \notin e }

missing_vars(e) == { v \in required_env_vars : v \notin e }

\* a first occurrence that rebinds roi_counts to a new dict
add_playbook_rebinds(rc, pb) ==
    IF pb \in DOMAIN rc
    THEN IF pb \in DOMAIN playbook_time_def_map
         THEN [rc EXCEPT ![pb] = @ + playbook_time_def_map[pb]]
         ELSE [rc EXCEPT ![pb] = @ + 999]
    ELSE IF pb \in DOMAIN playbook_time_def_map
         THEN (pb :> playbook_time_def_map[pb])
         ELSE (pb :> playbook_time_def_map[Unconfigured])

\* lines 133-142: one pass of the loop over playbook_attached_list
add_playbook(rc, pb) ==
    IF pb \in DOMAIN rc
    THEN IF pb \in DOMAIN playbook_time_def_map
         THEN [rc EXCEPT ![pb] = @ + playbook_time_def_map[pb]]
         ELSE [rc EXCEPT ![pb] = @ + 999]     \* KeyError -> except Exception
    ELSE IF pb \in DOMAIN playbook_time_def_map
         THEN rc @@ (pb :> playbook_time_def_map[pb])
         ELSE rc @@ (pb :> playbook_time_def_map[Unconfigured])

RECURSIVE add_all(_, _)
add_all(rc, pbs) ==
    IF pbs = << >> THEN rc ELSE add_all(add_playbook(rc, Head(pbs)), Tail(pbs))

\* a get_case_ids that reads the body whatever the status
get_case_ids_any_status(resp) ==
    IF resp.has_results
    THEN [fault |-> "none", ids |-> resp.results]
    ELSE [fault |-> "KeyError: results", ids |-> << >>]

\* get_case_ids: ids of a 200 response, [] otherwise; KeyError without "results"
get_case_ids(resp) ==
    IF resp.status = 200
    THEN IF resp.has_results
         THEN [fault |-> "none", ids |-> resp.results]
         ELSE [fault |-> "KeyError: results", ids |-> << >>]
    ELSE [fault |-> "none", ids |-> << >>]

\* an aggregation that reads the body whatever the status
sum_saved_any_status(rc, resp) ==
    IF \E k \in 1..Len(resp.alertCards) : resp.alertCards[k] = Absent
    THEN [fault |-> "KeyError: playbookAttached", roi |-> rc, added |-> << >>]
    ELSE [fault |-> "none", roi |-> add_all(rc, resp.alertCards),
          added |-> resp.alertCards]

\* sum_hours_saved_by_case_id / sum_minutes_saved_by_case_id
sum_saved_by_case_id(rc, resp) ==
    IF resp.status = 200
    THEN IF \E k \in 1..Len(resp.alertCards) : resp.alertCards[k] = Absent
         THEN [fault |-> "KeyError: playbookAttached", roi |-> rc, added |-> << >>]
         ELSE [fault |-> "none", roi |-> add_all(rc, resp.alertCards),
               added |-> resp.alertCards]
    ELSE [fault |-> "none", roi |-> rc, added |-> << >>]

\* datetime.utcnow().replace(hour=0, minute=0, second=0, microsecond=0)
Midnight(t) == t - (t % TicksPerDay)
\* start_date.strftime("%Y-%m-%d")
DayKey(t) == t \div TicksPerDay

\* lines 170-174
add_totals(tot, rc) ==
    [p \in DOMAIN tot \cup DOMAIN rc |->
        IF p \in DOMAIN tot
        THEN IF p \in DOMAIN rc THEN tot[p] + rc[p] ELSE tot[p]
        ELSE rc[p]]

----------------------------------------------------------------------------
(* Initial states *)

InitCommon ==
    /\ env \in SUBSET required_env_vars
    /\ pc = "start"
    /\ exit_code = -1
    /\ fault = "none"
    /\ roi_counts = EmptyMap
    /\ case_id_list = << >>
    /\ idx = 1
    /\ search_status = 0
    /\ response = 0
    /\ i = 0
    /\ all_roi_counts = EmptyMap
    /\ total_minutes_saved = EmptyMap
    /\ search_log = << >>
    /\ detail_log = << >>
    /\ hist = << >>

InitPoc ==
    /\ script = "poc"
    /\ startTime = PocStartDay * TicksPerDay
    /\ endTime = PocEndDay * TicksPerDay
    /\ now = 0
    /\ InitCommon

InitSeaborn ==
    /\ script = "seaborn"
    /\ startTime = 0
    /\ endTime = 0
    /\ now \in (FirstDay * TicksPerDay)..(FirstDay * TicksPerDay + TicksPerDay - 1)
    /\ InitCommon

----------------------------------------------------------------------------
(* Steps *)

\* lines 55-62 (53-60): the check of the environment at import time
CheckEnv ==
    /\ pc = "start"
    /\ IF missing_vars(env) # {}
       THEN /\ pc' = "exit"
            /\ exit_code' = 1
       ELSE /\ pc' = IF script = "poc" THEN "search" ELSE "day"
            /\ exit_code' = exit_code
    /\ UNCHANGED << script, env, fault, roi_counts, case_id_list, idx, search_status,
                    response, startTime, endTime, i, now, all_roi_counts,
                    total_minutes_saved, search_log, detail_log, hist >>

\* seaborn lines 154-162: the window of pass i and the reset of roi_counts.
\* utcnow() is read in every pass; the clock is read nowhere else, so all the
\* time that passed since the last reading (requests, time.sleep(1.6) per
\* case) is the advance chosen here.
DayStart ==
    /\ pc = "day"
    /\ i < NumDays
    /\ \E adv \in 0..MaxAdvance :
         LET t        == now + adv
             end_date == Midnight(t)
             start_date == end_date - (i + 1) * TicksPerDay
         IN  /\ now' = t
             /\ startTime' = start_date
             /\ endTime' = end_date
    /\ roi_counts' = EmptyMap
    /\ hist' = << >>
    /\ pc' = "search"
    /\ UNCHANGED << script, env, exit_code, fault, case_id_list, idx, search_status,
                    response, i, all_roi_counts, total_minutes_saved, search_log,
                    detail_log >>

\* get_case_ids() called by the for statement
GetCaseIds ==
    /\ pc = "search"
    /\ \E resp \in SearchResponses :
         LET r == get_case_ids(resp)
         IN  /\ search_status' = resp.status
             /\ search_log' = Append(search_log, << startTime, endTime >>)
             /\ IF r.fault # "none"
                THEN /\ pc' = "crashed"
                     /\ fault' = r.fault
                     /\ exit_code' = 1
                     /\ UNCHANGED << case_id_list, idx >>
                ELSE /\ pc' = "loop"
                     /\ case_id_list' = r.ids
                     /\ idx' = 1
                     /\ UNCHANGED << fault, exit_code >>
    /\ UNCHANGED << script, env, roi_counts, response, startTime, endTime, i, now,
                    all_roi_counts, total_minutes_saved, detail_log, hist >>

\* one pass of the for loop: sum_..._saved_by_case_id(case_id); the responses
\* of one window carry at most MaxAdded alert cards together
SumCase ==
    /\ pc = "loop"
    /\ idx <= Len(case_id_list)
    /\ \E resp \in DetailResponses :
         LET r == sum_saved_by_case_id(roi_counts, resp)
         IN  /\ Len(hist) + Len(resp.alertCards) <= MaxAdded
             /\ response' = resp.status
             /\ detail_log' = Append(detail_log,
                                     [id |-> case_id_list[idx], status |-> resp.status])
             /\ roi_counts' = r.roi
             /\ hist' = hist \o r.added
             /\ IF r.fault # "none"
                THEN /\ pc' = "crashed"
                     /\ fault' = r.fault
                     /\ exit_code' = 1
                     /\ idx' = idx
                ELSE /\ pc' = "loop"
                     /\ idx' = idx + 1
                     /\ UNCHANGED << fault, exit_code >>
    /\ UNCHANGED << script, env, case_id_list, search_status, startTime, endTime, i,
                    now, all_roi_counts, total_minutes_saved, search_log >>

\* poc lines 159-160: the list is exhausted, the final report is printed
FinishPoc ==
    /\ script = "poc"
    /\ pc = "loop"
    /\ idx > Len(case_id_list)
    /\ pc' = "done"
    /\ exit_code' = 0
    /\ UNCHANGED << script, env, fault, roi_counts, case_id_list, idx, search_status,
                    response, startTime, endTime, i, now, all_roi_counts,
                    total_minutes_saved, search_log, detail_log, hist >>

\* seaborn lines 167-174: the pass is stored and added to the grand total
DayEnd ==
    /\ script = "seaborn"
    /\ pc = "loop"
    /\ idx > Len(case_id_list)
    /\ all_roi_counts' =
         [k \in DOMAIN all_roi_counts \cup { DayKey(startTime) } |->
             IF k = DayKey(startTime) THEN roi_counts ELSE all_roi_counts[k]]
    /\ total_minutes_saved' = add_totals(total_minutes_saved, roi_counts)
    /\ i' = i + 1
    /\ pc' = "day"
    /\ UNCHANGED << script, env, exit_code, fault, roi_counts, case_id_list, idx,
                    search_status, response, startTime, endTime, now, search_log,
                    detail_log, hist >>

\* seaborn lines 176-201: range(3) is exhausted, the charts and the summary
FinishSeaborn ==
    /\ pc = "day"
    /\ i = NumDays
    /\ pc' = "done"
    /\ exit_code' = 0
    /\ UNCHANGED << script, env, fault, roi_counts, case_id_list, idx, search_status,
                    response, startTime, endTime, i, now, all_roi_counts,
                    total_minutes_saved, search_log, detail_log, hist >>

NextPoc == CheckEnv \/ GetCaseIds \/ SumCase \/ FinishPoc

NextSeaborn == CheckEnv \/ DayStart \/ GetCaseIds \/ SumCase \/ DayEnd \/ FinishSeaborn

SpecPoc == InitPoc /\ [][NextPoc]_vars

SpecSeaborn == InitSeaborn /\ [][NextSeaborn]_vars

----------------------------------------------------------------------------
(* Helpers of the properties *)

\* minutes one execution of playbook p is worth: its entry, else the default
Rate(p) == IF p \in DOMAIN playbook_time_def_map
           THEN playbook_time_def_map[p]
           ELSE playbook_time_def_map[Unconfigured]

RECURSIVE Occurrences(_, _)
Occurrences(p, s) ==
    IF s = << >> THEN 0
    ELSE (IF Head(s) = p THEN 1 ELSE 0) + Occurrences(p, Tail(s))

\* s with the elements at k and k + 1 exchanged
SwapAt(s, k) ==
    [j \in 1..Len(s) |-> IF j = k THEN s[k + 1] ELSE IF j = k + 1 THEN s[k] ELSE s[j]]

RECURSIVE SumOver(_, _)
SumOver(f, S) ==
    IF S = {} THEN 0
    ELSE LET x == CHOOSE y \in S : TRUE IN f[x] + SumOver(f, S \ {x})

\* minutes stored for playbook p over all stored days, an absent entry being 0
StoredMinutes(p) ==
    SumOver([k \in DOMAIN all_roi_counts |->
                IF p \in DOMAIN all_roi_counts[k] THEN all_roi_counts[k][p] ELSE 0],
            DOMAIN all_roi_counts)

StoredPlaybooks == UNION { DOMAIN all_roi_counts[k] : k \in DOMAIN all_roi_counts }

IsMidnight(t) == t % TicksPerDay = 0

Overlap(w1, w2) == w1[1] < w2[2] /\ w2[1] < w1[2]

----------------------------------------------------------------------------
(* Properties *)

\* C1: every entry of Running Totals equals the sum, over the processed alert
\* cards naming that playbook, of the table's entry for it, or of the
\* __unconfigured__ entry when the table has none: each occurrence of a name
\* absent from the table, the first and every later one, adds the default.
C1_TotalsAreSumOfRates ==
    \A p \in DOMAIN roi_counts : roi_counts[p] = Occurrences(p, hist) * Rate(p)

\* C2: a detail fetch answered with a non-200 status leaves Running Totals as
\* it was and the loop goes on to the next case id; a run that ends normally
\* has fetched every case id of the list, in order.
C2_FailedFetchSkipsCase ==
    /\ [][ (Len(detail_log') = Len(detail_log) + 1 /\ response' # 200)
             => /\ roi_counts' = roi_counts
                /\ hist' = hist
                /\ pc' = "loop"
                /\ fault' = "none"
                /\ idx' = idx + 1
                /\ case_id_list' = case_id_list ]_vars
    /\ [](pc = "done" =>
            /\ Len(detail_log) = Len(case_id_list)
            /\ \A k \in 1..Len(detail_log) : detail_log[k].id = case_id_list[k])

\* a run that ended normally: the first fetch added cards, the second failed,
\* the third added cards
C2_Witness ==
    /\ pc = "done"
    /\ Len(detail_log) = 3
    /\ detail_log[1].status = 200
    /\ detail_log[2].status # 200
    /\ detail_log[3].status = 200
    /\ Len(hist) = 2
    /\ hist[1] = Falcon
    /\ hist[2] = Falcon
    /\ roi_counts = (Falcon :> 10)

\* C3: every window queried by the multi-day script is one calendar day, from
\* UTC midnight to the next UTC midnight, and no two windows overlap.
C3_WindowsAreDisjointDays ==
    /\ \A k \in 1..Len(search_log) :
         /\ IsMidnight(search_log[k][1])
         /\ IsMidnight(search_log[k][2])
         /\ search_log[k][2] = search_log[k][1] + TicksPerDay
    /\ \A k, m \in 1..Len(search_log) :
         k # m => ~Overlap(search_log[k], search_log[m])

\* C4: at the end of the multi-day run the grand total of every playbook is
\* the sum of its entries in the stored per-day totals, and the grand total
\* has an entry for exactly the playbooks of the stored per-day totals.
C4_GrandTotalIsSumOfDays ==
    pc = "done" =>
        /\ DOMAIN total_minutes_saved = StoredPlaybooks
        /\ \A p \in DOMAIN total_minutes_saved :
             total_minutes_saved[p] = StoredMinutes(p)

\* C5: a search that yields no case ids, by an empty results array or by a
\* non-200 status (which does not raise), is followed by no detail fetch and
\* ends with empty Running Totals.
C5_NoCasesNoFetch ==
    /\ (search_status \notin {0, 200}) => (pc # "crashed" /\ case_id_list = << >>)
    /\ (pc \in {"loop", "done"} /\ case_id_list = << >>)
          => (detail_log = << >> /\ DOMAIN roi_counts = {})

\* a run that ended normally after a non-200 search response
C5_Witness ==
    /\ pc = "done"
    /\ search_status = 500
    /\ Len(search_log) = 1

\* C6: Running Totals do not depend on the order of the alert cards: exchanging
\* any two neighbouring cards of the processed sequence gives the same totals.
C6_OrderIndependent ==
    \A k \in 1..(Len(hist) - 1) : add_all(EmptyMap, SwapAt(hist, k)) = roi_counts

\* two cases fetched, the cards of both added, with different playbook names
C6_Witness ==
    /\ pc = "done"
    /\ Len(detail_log) = 2
    /\ Len(hist) = 3
    /\ hist[1] # hist[2]
    /\ hist[3] = hist[1]

\* C7: with APP_KEY or BASE_URL missing the process exits with code 1 and no
\* search request and no detail request is issued.
C7_MissingEnvExitsBeforeNetwork ==
    (env # required_env_vars) =>
        /\ pc \in {"start", "exit"}
        /\ pc = "exit" => exit_code = 1
        /\ search_log = << >>
        /\ detail_log = << >>

\* the process has exited because BASE_URL is missing
C7_Witness ==
    /\ pc = "exit"
    /\ env = {"APP_KEY"}
    /\ exit_code = 1

\* C8: an alert card without a playbook name (member absent, null or empty)
\* adds no entry to Running Totals and does not stop the run.
C8_NamelessCardAddsNothing ==
    /\ Null \notin DOMAIN roi_counts
    /\ Empty \notin DOMAIN roi_counts
    /\ fault # "KeyError: playbookAttached"

\* C9: no step adds the fallback penalty of 999 to an entry of Running Totals.
C9_PenaltyNeverAdded ==
    [][ \A p \in DOMAIN roi_counts \cap DOMAIN roi_counts' :
           roi_counts'[p] # roi_counts[p] + 999 ]_vars

\* C10: Running Totals is empty when a day-window starts, and the totals
\* stored for a finished day are not changed by a later window.
C10_StoredDaysAreFrozen ==
    [][ /\ (pc' = "search" => DOMAIN roi_counts' = {})
        /\ \A k \in DOMAIN all_roi_counts : all_roi_counts'[k] = all_roi_counts[k] ]_vars

====
